---- MODULE Spec2Model ----
(***************************************************************************)
(* Snakes and ladders room engine (snake_ladder_api.py): the persisted     *)
(* GameState of one room, the /join, /play_computer, /roll, /move and      *)
(* /state handlers, the turn engine (process_roll_logic,                   *)
(* process_move_logic) and the computer-turn loop (computer_turn).         *)
(*                                                                         *)
(* Encoding.  Python lists indexed from 0 are functions on 0..n-1, except  *)
(* players, a sequence read as players[turn_index + 1].  Optional[int]     *)
(* fields (last_roll, winner, pawn_index) are sequences of length 0 (None) *)
(* or 1.  Board mappings are functions whose domain is a set of decimal    *)
(* strings, as in the stored JSON; a tile is looked up by ToString(tile).  *)
(* A dice_prob table is a function from decimal-string keys to weights     *)
(* scaled by 10000; <<>> stands for None and for the empty table.  log is  *)
(* the number of entries appended to game.log since the initial state.     *)
(***************************************************************************)
EXTENDS Integers, Sequences, FiniteSets, TLC

PAWNS_PER_PLAYER == 3
WINNING_TILE == 100

\* Bound: no handler appends to a log that already holds MaxLog entries.
MaxLog == 5

Pawns == 0 .. (PAWNS_PER_PLAYER - 1)
Seats == 0 .. 1

None == <<>>
Some(x) == <<x>>

Difficulties == {"easy", "normal", "hard", "extreme"}

ComputerToken(d) == "computer_" \o d

ComputerTokens == {ComputerToken(d) : d \in Difficulties}

\* computer_token.split(sep="_")[-1]
DifficultyOf(token) == CHOOSE d \in Difficulties : ComputerToken(d) = token

\* token.startswith("computer"); human tokens are uuid4 strings
IsComputer(token) == token \in ComputerTokens

\* db:      the GameState stored for the room (load_game, save_game)
\* pc:      where the /state handler stands in computer_turn
\* resp:    the operation and the error of the last response
\* polled:  the object bound to get_state's variable game, which is the
\*          body of its response; None after any other response
\* rebound: computer_turn's variable game was rebound by load_game, and is
\*          no longer the object get_state holds
\* inflight: for each request handler running beside the others, the request
\*          it serves and the GameState it loaded, None when it is free
VARIABLES db, pc, resp, polled, rebound, inflight

vars == <<db, pc, resp, polled, rebound, inflight>>

(***************************************************************************)
(* Boards.  BoardA is one output of generate_board: five ladders with      *)
(* start in 2..80 and end in start+10..94, four snakes with start in       *)
(* 15..97 and end in 2..start-10, and the danger snake 99 -> 78.           *)
(***************************************************************************)
BoardA ==
  [ snakes  |-> ("20" :> 5) @@ ("47" :> 26) @@ ("62" :> 18) @@ ("95" :> 75)
                @@ ("99" :> 78),
    ladders |-> ("6" :> 94) @@ ("2" :> 38) @@ ("28" :> 84) @@ ("51" :> 67)
                @@ ("71" :> 91) ]

Boards == {BoardA}

\* GameState as built by create_game for the token of the creator
NewGame(board, token) ==
  [ status         |-> "waiting",
    players        |-> <<token>>,
    turn_index     |-> 0,
    board_config   |-> board,
    positions      |-> [p \in Seats |-> [i \in Pawns |-> 0]],
    finished_pawns |-> [p \in Seats |-> [i \in Pawns |-> FALSE]],
    last_roll      |-> None,
    phase          |-> "ROLL",
    winner         |-> None,
    log            |-> 0 ]

(***************************************************************************)
(* DiceModel: the faces random.choices / random.randint can return.        *)
(***************************************************************************)
KeyRange == 0 .. 9

\* int(v) for a decimal key
ParseInt(s) == CHOOSE n \in KeyRange : ToString(n) = s

Faces(dice_prob) ==
  IF DOMAIN dice_prob = {}
    THEN 1 .. 6
    ELSE {ParseInt(k) : k \in {v \in DOMAIN dice_prob : dice_prob[v] > 0}}

Table(w1, w2, w3, w4, w5, w6) ==
  ("1" :> w1) @@ ("2" :> w2) @@ ("3" :> w3) @@ ("4" :> w4) @@ ("5" :> w5)
  @@ ("6" :> w6)

Min(S) == CHOOSE x \in S : \A y \in S : x <= y

\* the dice_prob computer_turn passes to the roll, by difficulty
ComputerDiceProb(game, computer_token) ==
  LET computer_difficulty == DifficultyOf(computer_token)
      current_positions   == game.positions[1]
      lowest      == Min({current_positions[i] : i \in Pawns})
      dice_to_win == ToString(WINNING_TILE - lowest)
      near        == Table(1666, 1666, 1667, 1667, 1667, 1667)
  IN  CASE computer_difficulty = "easy" ->
             Table(2857, 2381, 1905, 1429, 952, 476)
        [] computer_difficulty = "hard" ->
             IF lowest >= 94
               THEN [near EXCEPT ![dice_to_win] = @ * 2]
               ELSE Table(476, 952, 1429, 1905, 2381, 2857)
        [] computer_difficulty = "extreme" ->
             IF lowest >= 94
               THEN [near EXCEPT ![dice_to_win] = @ * 3]
               ELSE Table(110, 440, 989, 1758, 2747, 3956)
        [] OTHER -> None

(***************************************************************************)
(* TurnEngine.  A request is [player_token, pawn_index, dice_prob].  The   *)
(* ...Error operators give the message of the ValueError raised, or "ok".  *)
(***************************************************************************)
Request(token, pawn_index, dice_prob) ==
  [player_token |-> token, pawn_index |-> pawn_index, dice_prob |-> dice_prob]

\* mutant: only a waiting game is refused as not active
RollErrorWaitingOnly(game, req) ==
  IF game.status = "waiting"
    THEN "Game not active"
  ELSE IF game.players[game.turn_index + 1] # req.player_token
    THEN "Not computer's turn"
  ELSE IF game.phase # "ROLL"
    THEN "Already rolled, waiting for move"
  ELSE "ok"

\* mutant: the phase is not checked
RollErrorNoPhase(game, req) ==
  IF game.status # "playing"
    THEN "Game not active"
  ELSE IF game.players[game.turn_index + 1] # req.player_token
    THEN "Not computer's turn"
  ELSE "ok"

RollError(game, req) ==
  IF game.status # "playing"
    THEN "Game not active"
  ELSE IF game.players[game.turn_index + 1] # req.player_token
    THEN "Not computer's turn"
  ELSE IF game.phase # "ROLL"
    THEN "Already rolled, waiting for move"
  ELSE "ok"

\* process_roll_logic once validation has passed and the die shows roll
RollResult(game, roll) ==
  [game EXCEPT !.last_roll = Some(roll), !.phase = "MOVE", !.log = @ + 1]

\* mutant: a finished pawn is accepted
MoveErrorNoFinished(game, req) ==
  IF req.pawn_index = None
    THEN "Invalid request: pawn_index missing"
  ELSE IF game.phase # "MOVE"
    THEN "Must roll first"
  ELSE IF game.players[game.turn_index + 1] # req.player_token
    THEN "Not computer's turn"
  ELSE IF req.pawn_index[1] < 0 \/ req.pawn_index[1] >= PAWNS_PER_PLAYER
    THEN "Invalid pawn"
  ELSE "ok"

\* mutant: the token is checked before the phase
MoveErrorTokenFirst(game, req) ==
  IF req.pawn_index = None
    THEN "Invalid request: pawn_index missing"
  ELSE IF game.players[game.turn_index + 1] # req.player_token
    THEN "Not computer's turn"
  ELSE IF game.phase # "MOVE"
    THEN "Must roll first"
  ELSE IF req.pawn_index[1] < 0 \/ req.pawn_index[1] >= PAWNS_PER_PLAYER
    THEN "Invalid pawn"
  ELSE IF game.finished_pawns[game.turn_index][req.pawn_index[1]]
    THEN "Pawn already finished"
  ELSE "ok"

MoveError(game, req) ==
  IF req.pawn_index = None
    THEN "Invalid request: pawn_index missing"
  ELSE IF game.phase # "MOVE"
    THEN "Must roll first"
  ELSE IF game.players[game.turn_index + 1] # req.player_token
    THEN "Not computer's turn"
  ELSE IF req.pawn_index[1] < 0 \/ req.pawn_index[1] >= PAWNS_PER_PLAYER
    THEN "Invalid pawn"
  ELSE IF game.finished_pawns[game.turn_index][req.pawn_index[1]]
    THEN "Pawn already finished"
  ELSE "ok"

\* mutant: ladders are ignored
LandingNoLadder(board_config, new_pos) ==
  LET str_pos == ToString(new_pos)
  IN  IF str_pos \in DOMAIN board_config.snakes
        THEN board_config.snakes[str_pos]
        ELSE new_pos

\* mutant: snakes are ignored
LandingNoSnake(board_config, new_pos) ==
  LET str_pos == ToString(new_pos)
  IN  IF str_pos \in DOMAIN board_config.ladders
        THEN board_config.ladders[str_pos]
        ELSE new_pos

\* the tile a pawn rests on after reaching new_pos <= WINNING_TILE
Landing(board_config, new_pos) ==
  LET str_pos == ToString(new_pos)
  IN  IF str_pos \in DOMAIN board_config.snakes
        THEN board_config.snakes[str_pos]
      ELSE IF str_pos \in DOMAIN board_config.ladders
        THEN board_config.ladders[str_pos]
      ELSE new_pos

\* mutant: a pawn that would overshoot is put on the winning tile
MovePawnClamped(game, pawn_idx) ==
  LET current_player == game.turn_index
      current_pos == game.positions[current_player][pawn_idx]
      new_pos     == current_pos + game.last_roll[1]
      final_pos   == IF new_pos > WINNING_TILE
                       THEN WINNING_TILE
                       ELSE Landing(game.board_config, new_pos)
  IN  IF final_pos = WINNING_TILE
        THEN [game EXCEPT !.positions[current_player][pawn_idx] = final_pos,
                          !.finished_pawns[current_player][pawn_idx] = TRUE,
                          !.log = @ + 2]
        ELSE [game EXCEPT !.positions[current_player][pawn_idx] = final_pos,
                          !.log = @ + 1]

\* the overshoot test, the relocation of the pawn and its finished flag
MovePawn(game, pawn_idx) ==
  LET current_player == game.turn_index
      current_pos == game.positions[current_player][pawn_idx]
      roll        == game.last_roll[1]
      new_pos     == current_pos + roll
      final_pos   == Landing(game.board_config, new_pos)
  IN  IF new_pos > WINNING_TILE
        THEN [game EXCEPT !.log = @ + 1]
      ELSE IF final_pos = WINNING_TILE
        THEN [game EXCEPT !.positions[current_player][pawn_idx] = final_pos,
                          !.finished_pawns[current_player][pawn_idx] = TRUE,
                          !.log = @ + 2]
      ELSE [game EXCEPT !.positions[current_player][pawn_idx] = final_pos,
                        !.log = @ + 1]

\* mutant: one finished pawn wins the game
WinCheckAny(game, current_player) ==
  IF \E i \in Pawns : game.finished_pawns[current_player][i]
    THEN [game EXCEPT !.status = "finished",
                      !.winner = Some(current_player),
                      !.log = @ + 1]
    ELSE game

\* if all(game.finished_pawns[current_player])
WinCheck(game, current_player) ==
  IF \A i \in Pawns : game.finished_pawns[current_player][i]
    THEN [game EXCEPT !.status = "finished",
                      !.winner = Some(current_player),
                      !.log = @ + 1]
    ELSE game

\* mutant: the turn never passes
TurnAdvanceNever(game) ==
  IF game.status # "finished" /\ game.last_roll = Some(6)
    THEN [game EXCEPT !.log = @ + 1]
    ELSE game

\* mutant: the turn passes after a 6 as well
TurnAdvanceAlways(game) ==
  IF game.status # "finished"
    THEN [game EXCEPT !.turn_index = 1 - @]
    ELSE game

\* the turn passes unless the game is over or a 6 was rolled
TurnAdvance(game) ==
  IF game.status # "finished"
    THEN IF game.last_roll # Some(6)
           THEN [game EXCEPT !.turn_index = 1 - @]
           ELSE [game EXCEPT !.log = @ + 1]
    ELSE game

\* mutant: the move leaves last_roll in place
EndMoveKeepsRoll(game) == [game EXCEPT !.phase = "ROLL"]

\* phase and last_roll are reset whether or not the game ended
EndMove(game) == [game EXCEPT !.phase = "ROLL", !.last_roll = None]

\* process_move_logic once validation has passed
MoveResult(game, req) ==
  EndMove(TurnAdvance(WinCheck(MovePawn(game, req.pawn_index[1]),
                               game.turn_index)))

(***************************************************************************)
(* ComputerStrategy: the pawn computer_turn moves after its roll.          *)
(***************************************************************************)
\* available_pawns, as a set
AvailablePawns(game) == {pi \in Pawns : ~game.finished_pawns[1][pi]}

\* the priority the evaluation loop gives to pawn_idx
Priority(game, pawn_idx) ==
  LET current_positions == game.positions[1]
      last_roll      == game.last_roll[1]
      current_pos    == current_positions[pawn_idx]
      new_pos        == current_pos + last_roll
      str_new_pos    == ToString(new_pos)
      tile           == IF str_new_pos \in DOMAIN game.board_config.snakes
                          THEN -100
                        ELSE IF str_new_pos \in DOMAIN game.board_config.ladders
                          THEN 100
                        ELSE 0
      finished_count == Cardinality({i \in Pawns : game.finished_pawns[1][i]})
      all_near_end   == \A i \in Pawns :
                          (~game.finished_pawns[1][i] \/ i = pawn_idx)
                            => current_positions[i] >= 90
      finish         == IF new_pos = WINNING_TILE
                          THEN IF finished_count = 0 /\ ~all_near_end
                                 THEN -200
                                 ELSE 300
                        ELSE IF new_pos >= 90 /\ current_pos < 90
                          THEN 20
                        ELSE 0
  IN  IF new_pos > WINNING_TILE THEN 0 ELSE tile + finish

\* one pass of the body of "for pawn_idx in available_pawns"
Evaluate(game, pawn_idx, best) ==
  LET priority == Priority(game, pawn_idx)
  IN  IF priority > best.max_priority
        THEN [max_priority |-> priority, pawn_to_move |-> pawn_idx]
      ELSE IF priority = best.max_priority
        THEN IF game.positions[1][pawn_idx]
                  < game.positions[1][best.pawn_to_move]
               THEN [best EXCEPT !.pawn_to_move = pawn_idx]
               ELSE best
      ELSE [best EXCEPT !.pawn_to_move = 0]

\* the evaluation loop from pawn_idx on, in increasing order of index
RECURSIVE Scan(_, _, _)
Scan(game, pawn_idx, best) ==
  IF pawn_idx >= PAWNS_PER_PLAYER
    THEN best.pawn_to_move
  ELSE IF pawn_idx \in AvailablePawns(game)
    THEN Scan(game, pawn_idx + 1, Evaluate(game, pawn_idx, best))
  ELSE Scan(game, pawn_idx + 1, best)

\* pawn_to_move is unassigned before the loop; no priority equals -1, so
\* the loop never reads it before assigning it
BestPawn(game) ==
  IF AvailablePawns(game) = {}
    THEN 0
    ELSE Scan(game, 0, [max_priority |-> -1, pawn_to_move |-> 0])

\* the values pawn_to_move can take, by difficulty
PawnToMove(game, computer_token) ==
  IF DifficultyOf(computer_token) = "easy"
    THEN IF AvailablePawns(game) = {} THEN {0} ELSE AvailablePawns(game)
    ELSE {BestPawn(game)}

(***************************************************************************)
(* Initial states: the room as create_game stores it, or a room found in   *)
(* mid-game (status playing, a roll awaited), on a generated board.        *)
(***************************************************************************)
Row(a, b, c) == (0 :> a) @@ (1 :> b) @@ (2 :> c)

Both(r0, r1) == (0 :> r0) @@ (1 :> r1)

\* an early position, two tiles before the head of the snake 20 -> 5
EarlyPositions == { Both(Row(18, 0, 0), Row(1, 0, 0)) }

\* end games: every pawn home or a few tiles from home
EndPositions ==
  { Both(Row(100, 100, 97), Row(100, 94, 96)),
    Both(Row(100, 97, 100), Row(100, 100, 96)) }

Opponents == {"p2"} \cup ComputerTokens

MidGame(board, opponent, turn, pos) ==
  [ NewGame(board, "p1") EXCEPT
      !.status         = "playing",
      !.players        = <<"p1", opponent>>,
      !.turn_index     = turn,
      !.positions      = pos,
      !.finished_pawns = [p \in Seats |->
                            [i \in Pawns |-> pos[p][i] = WINNING_TILE]] ]

Response(op, err) == [op |-> op, err |-> err]

\* the request handlers that may run at the same time
Handlers == {1, 2}

Init ==
  /\ db \in {NewGame(b, "p1") : b \in Boards}
            \cup {MidGame(b, "p2", 0, pos) :
                    b \in Boards, pos \in EarlyPositions}
            \cup {MidGame(b, o, t, pos) :
                    b \in Boards, o \in Opponents, t \in Seats,
                    pos \in EndPositions}
  /\ pc = "idle"
  /\ resp = Response("create", "ok")
  /\ polled = None
  /\ rebound = FALSE
  /\ inflight = [h \in Handlers |-> None]

(***************************************************************************)
(* Request handlers.  Each runs from load_game to save_game in one step;   *)
(* the computer-turn loop of /state takes one step per roll and per move,  *)
(* each ending with its save_game.                                         *)
(***************************************************************************)
\* the tokens a caller may present: those seated in the room and a foreign one
Tokens(game) == {game.players[i] : i \in 1 .. Len(game.players)} \cup {"intruder"}

PawnIndexes == {None} \cup {Some(i) : i \in -1 .. PAWNS_PER_PLAYER}

\* the dice_prob a caller may send: none, a table of two faces, and a table
\* whose only key is not a face of the die
DiceProbs == {None, ("3" :> 5000) @@ ("6" :> 5000), ("7" :> 10000)}

join_game ==
  /\ pc = "idle"
  /\ UNCHANGED inflight
  /\ IF Len(db.players) >= 2
       THEN /\ resp' = Response("join", "Room is full")
            /\ UNCHANGED db
       ELSE /\ db.log < MaxLog
            /\ db' = [db EXCEPT !.players = Append(@, "p2"),
                                !.status = "playing",
                                !.log = @ + 1]
            /\ resp' = Response("join", "ok")
  /\ polled' = None
  /\ UNCHANGED <<pc, rebound>>

play_computer(computer_difficulty) ==
  /\ pc = "idle"
  /\ UNCHANGED inflight
  /\ IF computer_difficulty \notin Difficulties
       THEN /\ resp' = Response("play_computer", "difficulty invalid")
            /\ UNCHANGED db
     ELSE IF Len(db.players) >= 2
       THEN /\ resp' = Response("play_computer", "Room is full")
            /\ UNCHANGED db
     ELSE /\ db.log < MaxLog
          /\ db' = [db EXCEPT
                      !.players = Append(@, ComputerToken(computer_difficulty)),
                      !.status = "playing",
                      !.log = @ + 1]
          /\ resp' = Response("play_computer", "ok")
  /\ polled' = None
  /\ UNCHANGED <<pc, rebound>>

roll_dice(req) ==
  /\ pc = "idle"
  /\ UNCHANGED inflight
  /\ IF RollError(db, req) # "ok"
       THEN /\ resp' = Response("roll", RollError(db, req))
            /\ UNCHANGED db
       ELSE /\ db.log < MaxLog
            /\ \E roll \in Faces(req.dice_prob) : db' = RollResult(db, roll)
            /\ resp' = Response("roll", "ok")
  /\ polled' = None
  /\ UNCHANGED <<pc, rebound>>

move_pawn(req) ==
  /\ pc = "idle"
  /\ UNCHANGED inflight
  /\ IF MoveError(db, req) # "ok"
       THEN /\ resp' = Response("move", MoveError(db, req))
            /\ UNCHANGED db
       ELSE /\ db.log < MaxLog
            /\ db' = MoveResult(db, req)
            /\ resp' = Response("move", "ok")
  /\ polled' = None
  /\ UNCHANGED <<pc, rebound>>

\* the seat to act is a computer: get_state calls computer_turn
ComputerToAct(game) ==
  /\ Len(game.players) > 1
  /\ IsComputer(game.players[2])
  /\ game.turn_index = 1

get_state ==
  /\ pc = "idle"
  /\ UNCHANGED inflight
  /\ polled' = Some(db)
  /\ IF ComputerToAct(db)
       THEN /\ pc' = "ct_while"
            /\ UNCHANGED resp
       ELSE /\ resp' = Response("state", "ok")
            /\ UNCHANGED pc
  /\ UNCHANGED <<db, rebound>>

\* process_roll_logic and process_move_logic assign to the fields of the
\* object computer_turn's game is bound to: the object get_state holds
\* takes the new value unless computer_turn's variable was rebound
Mutated(held, is_rebound, updated) ==
  IF is_rebound THEN held ELSE Some(updated)

\* the condition of the while loop of computer_turn
LoopCondition(game, computer_token) ==
  /\ game.status = "playing"
  /\ game.players[game.turn_index + 1] = computer_token

\* loop head to the save_game after the roll; returns when the loop
\* condition fails or the roll raises
computer_turn_roll ==
  /\ pc = "ct_while"
  /\ UNCHANGED inflight
  /\ LET computer_token == db.players[2]
         roll_req == Request(computer_token, None,
                             ComputerDiceProb(db, computer_token))
     IN  IF ~LoopCondition(db, computer_token)
              \/ RollError(db, roll_req) # "ok"
           THEN /\ pc' = "idle"
                /\ resp' = Response("state", "ok")
                /\ rebound' = FALSE
                /\ UNCHANGED <<db, polled>>
           ELSE /\ db.log < MaxLog
                /\ \E roll \in Faces(roll_req.dice_prob) :
                      db' = RollResult(db, roll)
                /\ polled' = Mutated(polled, rebound, db')
                /\ pc' = "ct_move"
                /\ UNCHANGED <<resp, rebound>>

\* pawn selection to the load_game after the move; returns when the
\* move raises
computer_turn_move ==
  /\ pc = "ct_move"
  /\ UNCHANGED inflight
  /\ LET computer_token == db.players[2]
     IN  \E pawn_to_move \in PawnToMove(db, computer_token) :
           LET move_req == Request(computer_token, Some(pawn_to_move), None)
           IN  IF MoveError(db, move_req) # "ok"
                 THEN /\ pc' = "idle"
                      /\ resp' = Response("state", "ok")
                      /\ rebound' = FALSE
                      /\ UNCHANGED <<db, polled>>
                 ELSE /\ db' = MoveResult(db, move_req)
                      /\ polled' = Mutated(polled, rebound, db')
                      /\ rebound' = TRUE
                      /\ pc' = "ct_while"
                      /\ UNCHANGED resp

Next ==
  \/ join_game
  \/ \E d \in Difficulties \cup {"impossible"} : play_computer(d)
  \/ \E t \in Tokens(db), dp \in DiceProbs : roll_dice(Request(t, None, dp))
  \/ \E t \in Tokens(db), pi \in PawnIndexes : move_pawn(Request(t, pi, None))
  \/ get_state
  \/ computer_turn_roll
  \/ computer_turn_move

Spec == Init /\ [][Next]_vars

(***************************************************************************)
(* Properties                                                              *)
(***************************************************************************)
\* the seat at turn_index presents its own token
ActingToken(game, token) == game.players[game.turn_index + 1] = token

\* a /roll request by token t with bias dp is served in this step
RollStep(t, dp) == roll_dice(Request(t, None, dp))

\* a /move request by token t for pawn index pi is served in this step
MoveStep(t, pi) == move_pawn(Request(t, pi, None))

\* the computer-turn loop rolls, or moves, in this step
ComputerRolls == computer_turn_roll /\ pc' = "ct_move"

ComputerMoves == computer_turn_move /\ pc' = "ct_while"

\* what an accepted roll does to the stored state
RollEffect ==
  /\ db'.last_roll # None
  /\ db'.phase = "MOVE"
  /\ db'.log = db.log + 1
  /\ db' = [db EXCEPT !.last_roll = db'.last_roll,
                      !.phase = db'.phase,
                      !.log = db'.log]

\* C1: a roll succeeds only when status is playing, the token is that of
\* the seat at turn_index and phase is ROLL; otherwise it fails and the
\* stored state is unchanged.  A successful roll sets last_roll, sets phase
\* to MOVE, appends one log entry and changes nothing else.
C1_RollContract ==
  [][ /\ \A t \in Tokens(db), dp \in DiceProbs :
           (resp'.op = "roll" /\ RollStep(t, dp)) =>
             IF db.status = "playing" /\ ActingToken(db, t) /\ db.phase = "ROLL"
               THEN resp'.err = "ok" /\ RollEffect
               ELSE resp'.err # "ok" /\ db' = db
      /\ ComputerRolls =>
           /\ db.status = "playing"
           /\ ActingToken(db, db.players[2])
           /\ db.phase = "ROLL"
           /\ RollEffect
      /\ (computer_turn_roll /\ pc' = "idle") => db' = db
    ]_vars

\* a second roll was refused after an accepted roll, which left phase MOVE
C1_Witness ==
  /\ resp = Response("roll", "Already rolled, waiting for move")
  /\ db.phase = "MOVE"
  /\ db.last_roll # None
  /\ db.log = 1

\* a move request the claim says must fail
MoveRejected(game, t, pi) ==
  \/ pi = None
  \/ pi[1] \notin Pawns
  \/ game.finished_pawns[game.turn_index][pi[1]]
  \/ game.phase # "MOVE"
  \/ ~ActingToken(game, t)

\* C2: a move fails and leaves the stored state unchanged when pawn_index
\* is missing or out of range, the pawn is finished, phase is not MOVE or
\* the token is not that of the seat at turn_index.
C2_MoveRejected ==
  [][ /\ \A t \in Tokens(db), pi \in PawnIndexes :
           (resp'.op = "move" /\ MoveRejected(db, t, pi) /\ MoveStep(t, pi)) =>
             resp'.err # "ok" /\ db' = db
      /\ (computer_turn_move /\ pc' = "idle") => db' = db
    ]_vars

\* a move of a finished pawn was refused during the phase MOVE
C2_Witness ==
  /\ resp = Response("move", "Pawn already finished")
  /\ db.phase = "MOVE"
  /\ db.status = "playing"

\* a roll, or a move, is accepted in this step (by /roll, /move or the
\* computer-turn loop)
RollAccepted ==
  \/ /\ resp' = Response("roll", "ok")
     /\ \E t \in Tokens(db), dp \in DiceProbs : RollStep(t, dp)
  \/ ComputerRolls

MoveAccepted ==
  \/ /\ resp' = Response("move", "ok")
     /\ \E t \in Tokens(db), pi \in PawnIndexes : MoveStep(t, pi)
  \/ ComputerMoves

\* the part of C3 that holds for every request: a game starts in phase
\* ROLL, an accepted roll takes ROLL to MOVE, an accepted move takes MOVE to
\* ROLL, nothing else changes a playing game, and a second roll by the
\* seat to act is refused as already rolled
C3_Alternation ==
  /\ (db.status = "waiting" /\ db'.status = "playing") => db'.phase = "ROLL"
  /\ RollAccepted => (db.phase = "ROLL" /\ db'.phase = "MOVE")
  /\ MoveAccepted => (db.phase = "MOVE" /\ db'.phase = "ROLL")
  /\ (db.status = "playing" /\ db' # db) =>
       \/ RollAccepted /\ ~MoveAccepted
       \/ MoveAccepted /\ ~RollAccepted
  /\ \A t \in Tokens(db), dp \in DiceProbs :
       ( /\ resp'.op = "roll"
         /\ db.status = "playing" /\ db.phase = "MOVE" /\ ActingToken(db, t)
         /\ RollStep(t, dp) ) =>
         resp'.err = "Already rolled, waiting for move" /\ db' = db

\* C3 as claimed: successful actions alternate roll, move, starting with a
\* roll; a second roll without a move between fails as a wrong phase, and
\* every move issued while a roll is awaited fails as a wrong phase.
C3_Original ==
  [][ /\ C3_Alternation
      /\ \A t \in Tokens(db), pi \in PawnIndexes :
           ( /\ resp'.op = "move"
             /\ db.status = "playing" /\ db.phase = "ROLL"
             /\ MoveStep(t, pi) ) =>
             resp'.err = "Must roll first"
    ]_vars

\* C3 (amended): as C3, but only a move that names a pawn index fails as
\* a wrong phase while a roll is awaited; a move without pawn_index fails
\* as an invalid request, whatever the phase.
C3_PhaseOrder ==
  [][ /\ C3_Alternation
      /\ \A t \in Tokens(db), pi \in PawnIndexes :
           ( /\ resp'.op = "move"
             /\ db.status = "playing" /\ db.phase = "ROLL"
             /\ MoveStep(t, pi) ) =>
             /\ db' = db
             /\ resp'.err = IF pi = None
                              THEN "Invalid request: pawn_index missing"
                              ELSE "Must roll first"
    ]_vars

\* a move was refused because no roll preceded it in this turn
C3_Witness ==
  /\ resp = Response("move", "Must roll first")
  /\ db.status = "playing"
  /\ db.phase = "ROLL"
  /\ db.log > 0

\* C4 as claimed: every successful move made with last_roll # 6 passes the
\* turn to the other player.
C4_Original ==
  [][ (MoveAccepted /\ db.last_roll # Some(6)) =>
        db'.turn_index = 1 - db.turn_index
    ]_vars

\* C4 (amended): a successful move made with last_roll # 6 passes the turn
\* to the other player unless it finishes the game; the winning move
\* leaves turn_index unchanged.
C4_TurnFlips ==
  [][ (MoveAccepted /\ db.last_roll # Some(6)) =>
        IF db'.status = "finished"
          THEN db'.turn_index = db.turn_index
          ELSE db'.turn_index = 1 - db.turn_index
    ]_vars

\* the first seat moved 18 -> 21 with a roll of 3 and the turn passed
C4_Witness ==
  /\ resp = Response("move", "ok")
  /\ db.positions[0][0] = 21
  /\ db.turn_index = 1
  /\ db.log = 2

\* C5: a successful move made with last_roll = 6 leaves turn_index
\* unchanged and resets phase to ROLL, so that the next roll accepted is
\* that of the same seat; so too when the 6 overshoots and no pawn moves.
C5_SixKeepsTurn ==
  [][ (MoveAccepted /\ db.last_roll = Some(6)) =>
        /\ db'.turn_index = db.turn_index
        /\ db'.phase = "ROLL"
        /\ db'.last_roll = None
        /\ db'.status = "playing" =>
             \A t \in Tokens(db') :
               RollError(db', Request(t, None, None)) = "ok"
                 <=> t = db.players[db.turn_index + 1]
        /\ \A i \in Pawns :
             db.positions[db.turn_index][i] + 6 > WINNING_TILE =>
               db'.positions[db.turn_index][i] = db.positions[db.turn_index][i]
    ]_vars

\* the first seat rolled 6 with its last pawn on 97: the pawn stayed and
\* the seat rolls again
C5_Witness ==
  /\ resp = Response("move", "ok")
  /\ db.positions[0] = Row(100, 100, 97)
  /\ db.status = "playing"
  /\ db.turn_index = 0
  /\ db.phase = "ROLL"
  /\ db.log = 3

\* every pawn of seat p is marked finished
AllFinished(game, p) == \A i \in Pawns : game.finished_pawns[p][i]

\* C6: status is finished exactly when some seat has all its pawns
\* finished, all on the winning tile; then winner and turn_index are that
\* seat, and no other seat has all its pawns finished; while status is not
\* finished, winner is absent.
C6_WinDetection ==
  /\ db.status = "finished" <=> \E p \in Seats : AllFinished(db, p)
  /\ \A p \in Seats :
       AllFinished(db, p) =>
         /\ \A i \in Pawns : db.positions[p][i] = WINNING_TILE
         /\ db.winner = Some(p)
         /\ db.turn_index = p
         /\ ~AllFinished(db, 1 - p)
  /\ db.status # "finished" => db.winner = None

\* the first seat has won
C6_Witness ==
  /\ db.status = "finished"
  /\ db.winner = Some(0)
  /\ AllFinished(db, 0)
  /\ resp = Response("move", "ok")

\* the pawn the accepted move of this step is about
MovedPawn(i) ==
  \/ /\ resp' = Response("move", "ok")
     /\ \E t \in Tokens(db) : MoveStep(t, Some(i))
  \/ /\ ComputerMoves
     /\ i \in PawnToMove(db, db.players[2])
     /\ db' = MoveResult(db, Request(db.players[2], Some(i), None))

\* C7: a successful move whose raw target exceeds the winning tile leaves
\* positions and finished_pawns unchanged, resets phase to ROLL and clears
\* last_roll.
C7_Overshoot ==
  [][ \A i \in Pawns :
        ( /\ MovedPawn(i)
          /\ db.positions[db.turn_index][i] + db.last_roll[1] > WINNING_TILE ) =>
          /\ db'.positions = db.positions
          /\ db'.finished_pawns = db.finished_pawns
          /\ db'.phase = "ROLL"
          /\ db'.last_roll = None
    ]_vars

\* the first seat rolled 4 or 5 with its last pawn on 97: the pawn stayed
\* and the turn passed
C7_Witness ==
  /\ resp = Response("move", "ok")
  /\ db.positions[0] = Row(100, 100, 97)
  /\ db.status = "playing"
  /\ db.turn_index = 1
  /\ db.phase = "ROLL"
  /\ db.last_roll = None
  /\ db.log = 2

\* the end tile of the snake or ladder that starts on tile, or tile itself
Redirected(board_config, tile) ==
  LET hit == {k \in DOMAIN board_config.snakes : k = ToString(tile)}
      up  == {k \in DOMAIN board_config.ladders : k = ToString(tile)}
  IN  IF hit # {} THEN board_config.snakes[CHOOSE k \in hit : TRUE]
      ELSE IF up # {} THEN board_config.ladders[CHOOSE k \in up : TRUE]
      ELSE tile

\* C8: a successful move whose raw target is at most the winning tile puts
\* the pawn on the end of the snake or ladder that starts on the raw
\* target, or on the raw target if none does; no other position changes,
\* and the pawn is marked finished exactly when that final tile is the
\* winning tile.
C8_Redirection ==
  [][ \A i \in Pawns :
        ( /\ MovedPawn(i)
          /\ db.positions[db.turn_index][i] + db.last_roll[1] <= WINNING_TILE ) =>
          LET p     == db.turn_index
              final == Redirected(db.board_config,
                                  db.positions[p][i] + db.last_roll[1])
          IN  /\ db'.positions = [db.positions EXCEPT ![p][i] = final]
              /\ db'.finished_pawns =
                   [db.finished_pawns EXCEPT ![p][i] = (final = WINNING_TILE)]
              /\ db'.status = "finished" <=> AllFinished(db', p)
    ]_vars

\* the pawn on 18 moved 2, onto the head of the snake 20 -> 5, and rests
\* on 5
C8_Witness ==
  /\ resp = Response("move", "ok")
  /\ db.positions[0][0] = 5
  /\ "20" \in DOMAIN db.board_config.snakes
  /\ db.log = 2

\* C9: once status is finished no step changes the stored state: rolls,
\* moves, joins and polls (with the computer-turn loop) fail or do nothing.
C9_FinishedReadOnly ==
  [][ db.status = "finished" => db' = db ]_vars

\* the second seat, a computer, has won and a poll has returned, its loop
\* having found the game finished
C9_Witness ==
  /\ db.status = "finished"
  /\ db.winner = Some(1)
  /\ IsComputer(db.players[2])
  /\ pc = "idle"
  /\ resp = Response("state", "ok")

\* computer_turn returns with the game over, or with the first seat to roll
ControlPassedBack(game) ==
  \/ game.status = "finished"
  \/ /\ game.turn_index = 0
     /\ game.phase = "ROLL"
     /\ game.last_roll = None

\* C10: computer_turn, entered on a playing game with the computer to act
\* and phase ROLL, returns only when the game is finished or the first seat
\* is to roll.  (A return from the loop head with phase MOVE is the only
\* return of a call that was entered with phase MOVE.)
C10_ControlPassesBack ==
  [][ ( /\ pc # "idle"
        /\ pc' = "idle"
        /\ ~(pc = "ct_while" /\ db.phase # "ROLL") ) =>
        ControlPassedBack(db')
    ]_vars


\* the computer-turn loop of a scoring difficulty has rolled and is about
\* to select its pawn
Selecting ==
  /\ pc = "ct_move"
  /\ DifficultyOf(db.players[2]) # "easy"

\* C11: for normal, hard and extreme the pawn chosen after a roll is an
\* unfinished pawn whose priority is at least that of every other
\* unfinished pawn and, among the unfinished pawns of that highest
\* priority, the one with the lowest current position.
C11_BestPawnChosen ==
  Selecting =>
    LET chosen == BestPawn(db)
    IN  /\ chosen \in AvailablePawns(db)
        /\ \A i \in AvailablePawns(db) :
             /\ Priority(db, chosen) >= Priority(db, i)
             /\ Priority(db, chosen) = Priority(db, i) =>
                  db.positions[1][chosen] <= db.positions[1][i]

\* C16: for every difficulty the pawn index the computer-turn loop passes
\* to the move is in range and names an unfinished pawn of the computer,
\* so the computer's move is not refused as an invalid or finished pawn.
C16_ComputerPawnValid ==
  pc = "ct_move" =>
    \A pawn_to_move \in PawnToMove(db, db.players[2]) :
      /\ pawn_to_move \in Pawns
      /\ ~db.finished_pawns[1][pawn_to_move]
      /\ MoveError(db, Request(db.players[2], Some(pawn_to_move), None)) = "ok"


\* C12: the state a poll returns is the state in the store, however many
\* times the computer-turn loop rolled again.
C12_PollReturnsStored ==
  (pc = "idle" /\ resp = Response("state", "ok")) => polled = Some(db)


\* ---------------------------------------------------------------------
\* generate_board, called by create_game
\* ---------------------------------------------------------------------

EmptyBoard == [snakes |-> <<>>, ladders |-> <<>>]

\* dict.values()
Values(d) == { d[k] : k \in DOMAIN d }

\* len(dict)
Len_(d) == Cardinality(DOMAIN d)

\* the targets of the two while loops
LadderTarget == 5

SnakeTarget == 4

\* the tiles each call of random.randint is let to draw
LadderStarts == {2, 6, 28, 38, 51, 71}

LadderEnds == {38, 51, 67, 84, 91, 94}

SnakeStarts == {20, 47, 51, 62, 94, 95}

SnakeEnds == {5, 18, 20, 26, 51, 75}

DangerStarts == {98, 99}

DangerEnds == {51, 62, 75, 78}

\* random.randint(a, b), a draw among the sampled tiles of a..b
randint(a, b, sample) == { n \in sample : a <= n /\ n <= b }

\* the test a drawn ladder passes before it is stored
LadderAccepted(board, start, end) ==
  /\ ToString(start) \notin DOMAIN board.ladders
  /\ end \notin Values(board.ladders)
  /\ start \notin Values(board.ladders)
  /\ ToString(end) \notin DOMAIN board.ladders

\* mutant: a snake may end on the foot of a ladder
SnakeAcceptedOnLadderFoot(board, start, end) ==
  /\ ToString(start) \notin DOMAIN board.ladders
  /\ ToString(start) \notin DOMAIN board.snakes
  /\ start \notin Values(board.ladders)
  /\ end \notin Values(board.snakes)
  /\ start \notin Values(board.snakes)
  /\ ToString(end) \notin DOMAIN board.snakes

\* the test a drawn snake passes before it is stored, the same for the
\* four general snakes and for the snake of tiles 98-99
SnakeAccepted(board, start, end) ==
  /\ ToString(start) \notin DOMAIN board.ladders
  /\ ToString(start) \notin DOMAIN board.snakes
  /\ start \notin Values(board.ladders)
  /\ ToString(end) \notin DOMAIN board.ladders
  /\ end \notin Values(board.snakes)
  /\ start \notin Values(board.snakes)
  /\ ToString(end) \notin DOMAIN board.snakes

\* dict[str(start)] = end
Store(d, start, end) ==
  [ k \in DOMAIN d \cup {ToString(start)} |->
      IF k = ToString(start) THEN end ELSE d[k] ]

\* one pass of "while len(ladders) < 5"
create_ladders ==
  /\ pc = "generate_board"
  /\ UNCHANGED inflight
  /\ Len_(db.board_config.ladders) < LadderTarget
  /\ \E start \in randint(2, 80, LadderStarts) :
       \E end \in randint(start + 10, 94, LadderEnds) :
         IF LadderAccepted(db.board_config, start, end)
           THEN db' = [db EXCEPT !.board_config.ladders = Store(@, start, end)]
           ELSE UNCHANGED db
  /\ UNCHANGED <<pc, resp, polled, rebound>>

\* one pass of "while len(snakes) < 4"
create_snakes ==
  /\ pc = "generate_board"
  /\ UNCHANGED inflight
  /\ Len_(db.board_config.ladders) = LadderTarget
  /\ Len_(db.board_config.snakes) < SnakeTarget
  /\ \E start \in randint(15, 97, SnakeStarts) :
       \E end \in randint(2, start - 10, SnakeEnds) :
         IF SnakeAccepted(db.board_config, start, end)
           THEN db' = [db EXCEPT !.board_config.snakes = Store(@, start, end)]
           ELSE UNCHANGED db
  /\ UNCHANGED <<pc, resp, polled, rebound>>

\* the single draw of the snake of tiles 98-99, and the return
danger_snake ==
  /\ pc = "generate_board"
  /\ UNCHANGED inflight
  /\ Len_(db.board_config.ladders) = LadderTarget
  /\ Len_(db.board_config.snakes) = SnakeTarget
  /\ \E start \in randint(98, 99, DangerStarts) :
       \E end \in randint(50, start - 10, DangerEnds) :
         IF SnakeAccepted(db.board_config, start, end)
           THEN db' = [db EXCEPT !.board_config.snakes = Store(@, start, end)]
           ELSE UNCHANGED db
  /\ pc' = "idle"
  /\ resp' = Response("create", "ok")
  /\ UNCHANGED <<polled, rebound>>

generate_board == create_ladders \/ create_snakes \/ danger_snake

\* create_game at the call of generate_board
InitBoard ==
  /\ db = NewGame(EmptyBoard, "p1")
  /\ pc = "generate_board"
  /\ resp = Response("create", "generate_board")
  /\ polled = None
  /\ rebound = FALSE
  /\ inflight = [h \in Handlers |-> None]

SpecBoard == InitBoard /\ [][generate_board]_vars

Returned == pc = "idle"

\* the tile a key of the board names
Tile(k) == CHOOSE n \in 0 .. WINNING_TILE : ToString(n) = k

Starts(d) == { Tile(k) : k \in DOMAIN d }

\* C13: on every returned board no tile starts both a snake and a ladder,
\* every snake goes down, every ladder goes up, and no tile where a snake
\* or a ladder ends is the start of a snake or of a ladder.
C13_BoardWellFormed ==
  Returned =>
    LET snakes  == db.board_config.snakes
        ladders == db.board_config.ladders
    IN  /\ DOMAIN snakes \cap DOMAIN ladders = {}
        /\ \A k \in DOMAIN snakes : snakes[k] < Tile(k)
        /\ \A k \in DOMAIN ladders : ladders[k] > Tile(k)
        /\ (Values(snakes) \cup Values(ladders))
             \cap (Starts(snakes) \cup Starts(ladders)) = {}

\* a board was returned, the one the game model plays on: its snake 62 -> 18
\* was drawn after ladders and snakes that rule other draws out
C13_Witness ==
  /\ Returned
  /\ db.board_config = BoardA

\* C14: every returned board has exactly 5 ladders, exactly 4 snakes that
\* start on tiles 15..97, and one more snake that starts on tile 98 or 99.
C14_BoardCounts ==
  Returned =>
    LET snakes  == db.board_config.snakes
        ladders == db.board_config.ladders
    IN  /\ Len_(ladders) = 5
        /\ Cardinality({ k \in DOMAIN snakes : Tile(k) \in 15..97 }) = 4
        /\ Cardinality({ k \in DOMAIN snakes : Tile(k) \in 98..99 }) = 1


\* C15: whatever bias the roll is made with (none, a table derived for the
\* computer, or the dice_prob a caller sends), the face stored by a
\* successful roll is one of 1..6.
C15_RollIsFace ==
  db.last_roll # None => db.last_roll[1] \in 1 .. 6


\* ---------------------------------------------------------------------
\* the computer's turn under polling
\* ---------------------------------------------------------------------

\* a pass of the loop in which the computer rolls a face other than 6
RollsNotSix ==
  /\ computer_turn_roll
  /\ db'.last_roll # None
  /\ db'.last_roll # Some(6)

\* the steps of GET /state alone
Polling == get_state \/ computer_turn_roll \/ computer_turn_move

\* the room is polled again and again and nothing else is requested, a
\* poll that entered computer_turn runs on, and the die does not show 6
\* forever
SpecPolled ==
  /\ Init
  /\ [][Polling]_vars
  /\ WF_vars(get_state)
  /\ WF_vars(computer_turn_roll)
  /\ WF_vars(computer_turn_move)
  /\ SF_vars(RollsNotSix)

ComputerOnTurn ==
  /\ db.status = "playing"
  /\ Len(db.players) = 2
  /\ IsComputer(db.players[2])
  /\ db.turn_index = 1

\* C17: against a computer, whenever the game is playing with the computer
\* to act, polling the state leads to the game being finished or to the
\* human being to act (runs are followed until the log is full).
C17_ComputerTurnEnds ==
  (ComputerOnTurn /\ db.log < MaxLog)
    ~> (db.status = "finished" \/ db.turn_index = 0 \/ db.log >= MaxLog)


\* ---------------------------------------------------------------------
\* /roll and /move served by handlers that run at the same time
\* ---------------------------------------------------------------------

\* the first statement of roll_dice and of move_pawn: load_game
load_game(h, op, req) ==
  /\ pc = "idle"
  /\ inflight[h] = None
  /\ inflight' = [inflight EXCEPT ![h] = Some([op |-> op, req |-> req, game |-> db])]
  /\ UNCHANGED <<db, pc, resp, polled, rebound>>

\* the rest of roll_dice: process_roll_logic on the loaded state, save_game
roll_dice_save(h) ==
  /\ inflight[h] # None
  /\ inflight[h][1].op = "roll"
  /\ LET req  == inflight[h][1].req
         game == inflight[h][1].game
     IN  IF RollError(game, req) # "ok"
           THEN /\ resp' = Response("roll", RollError(game, req))
                /\ UNCHANGED db
           ELSE /\ game.log < MaxLog
                /\ \E roll \in Faces(req.dice_prob) :
                     db' = RollResult(game, roll)
                /\ resp' = Response("roll", "ok")
  /\ inflight' = [inflight EXCEPT ![h] = None]
  /\ polled' = None
  /\ UNCHANGED <<pc, rebound>>

\* the rest of move_pawn: process_move_logic on the loaded state, save_game
move_pawn_save(h) ==
  /\ inflight[h] # None
  /\ inflight[h][1].op = "move"
  /\ LET req  == inflight[h][1].req
         game == inflight[h][1].game
     IN  IF MoveError(game, req) # "ok"
           THEN /\ resp' = Response("move", MoveError(game, req))
                /\ UNCHANGED db
           ELSE /\ game.log < MaxLog
                /\ db' = MoveResult(game, req)
                /\ resp' = Response("move", "ok")
  /\ inflight' = [inflight EXCEPT ![h] = None]
  /\ polled' = None
  /\ UNCHANGED <<pc, rebound>>

\* the requests sent at the same time: by the seated players, who roll with
\* the table of two faces and move one of their pawns
Seated(game) == { game.players[i] : i \in 1 .. Len(game.players) }

TwoFaces == ("3" :> 5000) @@ ("6" :> 5000)

Concurrent ==
  \/ \E h \in Handlers, t \in Seated(db) :
       load_game(h, "roll", Request(t, None, TwoFaces))
  \/ \E h \in Handlers, t \in Seated(db), i \in Pawns :
       load_game(h, "move", Request(t, Some(i), None))
  \/ \E h \in Handlers : roll_dice_save(h)
  \/ \E h \in Handlers : move_pawn_save(h)

\* a game of two humans near its end
InitConcurrent ==
  /\ Init
  /\ db.status = "playing"
  /\ db.players = <<"p1", "p2">>
  /\ db.positions \in EndPositions

SpecConcurrent == InitConcurrent /\ [][Concurrent]_vars

\* one valid transition leads from the state before to the state after
ValidTransition(before, after) ==
  \/ \E t \in Tokens(before), dp \in DiceProbs :
       /\ RollError(before, Request(t, None, dp)) = "ok"
       /\ \E roll \in Faces(dp) : after = RollResult(before, roll)
  \/ \E t \in Tokens(before), i \in PawnIndexes :
       /\ MoveError(before, Request(t, i, None)) = "ok"
       /\ after = MoveResult(before, Request(t, i, None))

\* C18: with handlers running at the same time, every state written to the
\* store results from one valid transition of the state stored just before
\* the write.
C18_WritesAreTransitions ==
  [][db' # db => ValidTransition(db, db')]_vars


\* C19: in every reachable state last_roll is present exactly when phase is
\* MOVE, and phase MOVE implies status playing; after every successful
\* move, the winning move and the overshoot included, phase is ROLL and
\* last_roll is absent.
C19_RollPresentInMove ==
  /\ [](/\ db.last_roll # None <=> db.phase = "MOVE"
        /\ db.phase = "MOVE" => db.status = "playing")
  /\ [][MoveAccepted => (db'.phase = "ROLL" /\ db'.last_roll = None)]_vars

\* the second human made the winning move: the finished game awaits a roll
\* and holds no roll
C19_Witness ==
  /\ resp = Response("move", "ok")
  /\ db.players = <<"p1", "p2">>
  /\ db.status = "finished"
  /\ db.winner = Some(1)
  /\ db.phase = "ROLL"
  /\ db.last_roll = None


\* C20: every pawn position is in 0..100, a pawn is flagged finished
\* exactly when it stands on the winning tile, and the position and the
\* flag of a finished pawn never change again.
C20_FinishedPawnsStay ==
  /\ [](\A p \in Seats, i \in Pawns :
          /\ db.positions[p][i] \in 0 .. WINNING_TILE
          /\ db.finished_pawns[p][i] <=> db.positions[p][i] = WINNING_TILE)
  /\ [][\A p \in Seats, i \in Pawns :
          db.finished_pawns[p][i] =>
            /\ db'.finished_pawns[p][i]
            /\ db'.positions[p][i] = db.positions[p][i]]_vars


\* ---------------------------------------------------------------------
\* a room created on a freshly generated board, then played
\* ---------------------------------------------------------------------

\* two humans play the room create_game made: the second joins, the player
\* to act rolls the unbiased die and moves its first pawn
Play ==
  \/ join_game
  \/ roll_dice(Request(db.players[db.turn_index + 1], None, None))
  \/ move_pawn(Request(db.players[db.turn_index + 1], Some(0), None))

SpecGenerated == InitBoard /\ [][generate_board \/ Play]_vars

\* the tiles where a snake or a ladder of the board starts
StartKeys(board_config) ==
  DOMAIN board_config.snakes \cup DOMAIN board_config.ladders

====
